---- MODULE Spec2Model ----
(***************************************************************************)
(* The command processor of own-redis: the returnReply callback that the   *)
(* "data" handler of every connection installs, the shared store object    *)
(* it reads and writes, and the bytes it hands to connection.write.        *)
(*                                                                         *)
(* Two revisions of the dispatcher exist: src/index.js (SET and GET, no    *)
(* default branch) and src/unnamed/part_000 (eleven cases and a default).  *)
(* The variable rev fixes the revision of a run.                           *)
(*                                                                         *)
(* Strings that the code converts (Number(...), template literals) are     *)
(* sequences of one-character strings, so that the conversions are         *)
(* computed.  Keys and command names are only compared, never converted:   *)
(* they are plain strings.                                                 *)
(***************************************************************************)
EXTENDS Integers, Sequences, FiniteSets

VARIABLES rev, alive, store, now, last, asked, delOnes, written,
          inbox, sent, outbox

vars == <<rev, alive, store, now, last, asked, delOnes, written,
          inbox, sent, outbox>>

(***************************************************************************)
(* Bounds of the model.                                                    *)
(***************************************************************************)
\* counters are explored while their distance from 0, or from 2^53, is at
\* most MaxNum
MaxNum == 2
\* longest argument list of an MSET
MaxMsetArgs == 3
\* clock ticks explored
MaxTicks == 2
\* commands a client sends on its connection
MaxSent == 2

Keys == {"a", "b"}

(***************************************************************************)
(* JavaScript values held by the store: undefined, a string, a number.     *)
(* A number is NaN or an integer kept as sign and magnitude; the magnitude *)
(* is hi * Limb + lo, which reaches past 2^53, where an IEEE-754 double    *)
(* stops holding every integer.                                            *)
(***************************************************************************)
Limb == 10000 * 10000

Undefined == [t |-> "undefined", s |-> <<>>, nan |-> FALSE, neg |-> FALSE, hi |-> 0, lo |-> 0]

Str(s) == [t |-> "string", s |-> s, nan |-> FALSE, neg |-> FALSE, hi |-> 0, lo |-> 0]

NaN == [t |-> "number", s |-> <<>>, nan |-> TRUE, neg |-> FALSE, hi |-> 0, lo |-> 0]

\* the number with sign neg and magnitude m; zero has one representation
MkNum(neg, m) ==
  [t |-> "number", s |-> <<>>, nan |-> FALSE,
   neg |-> (neg /\ (m.hi > 0 \/ m.lo > 0)), hi |-> m.hi, lo |-> m.lo]

\* the number of a small TLA+ integer
Num(i) == MkNum(i < 0, [hi |-> 0, lo |-> IF i < 0 THEN 0 - i ELSE i])

Mag(v) == [hi |-> v.hi, lo |-> v.lo]

MagLE(m, n) == m.hi < n.hi \/ (m.hi = n.hi /\ m.lo <= n.lo)

MagInc(m) ==
  IF m.lo = Limb - 1 THEN [hi |-> m.hi + 1, lo |-> 0] ELSE [hi |-> m.hi, lo |-> m.lo + 1]

MagDec(m) ==
  IF m.lo = 0 THEN [hi |-> m.hi - 1, lo |-> Limb - 1] ELSE [hi |-> m.hi, lo |-> m.lo - 1]

\* 2^53 = 9007199254740992
Two53 == [hi |-> 90071992, lo |-> 54740992]

\* The double nearest to the integer m, for m < 2^54: exact up to 2^53; above it
\* only even integers are doubles, and an odd one is a tie that goes to the
\* neighbour with the even significand, the multiple of 4 (Limb is one).
RoundToDouble(m) ==
  IF MagLE(m, Two53) \/ m.lo % 2 = 0 THEN m
  ELSE IF m.lo % 4 = 1 THEN MagDec(m) ELSE MagInc(m)

\* x + d for an integer number x and d in {1, -1}, as the double addition gives it
AddSmall(x, d) ==
  LET m == Mag(x)
      zero == m.hi = 0 /\ m.lo = 0
      away == (d = 1 /\ ~x.neg) \/ (d = -1 /\ (x.neg \/ zero))
  IN  IF away
        THEN MkNum(d = -1, RoundToDouble(MagInc(m)))
        ELSE MkNum(x.neg, RoundToDouble(MagDec(m)))

(***************************************************************************)
(* Strings and conversions.                                                *)
(***************************************************************************)
Digits == <<"0", "1", "2", "3", "4", "5", "6", "7", "8", "9">>

IsDigit(c) == \E i \in 1..10 : Digits[i] = c

DigitVal(c) == (CHOOSE i \in 1..10 : Digits[i] = c) - 1

Front(s) == SubSeq(s, 1, Len(s) - 1)

\* the magnitude a sequence of decimal digits denotes
RECURSIVE DigitsMag(_)
DigitsMag(ds) ==
  IF ds = <<>> THEN [hi |-> 0, lo |-> 0]
  ELSE LET m == DigitsMag(Front(ds))
           x == m.lo * 10 + DigitVal(ds[Len(ds)])
       IN  [hi |-> m.hi * 10 + x \div Limb, lo |-> x % Limb]

\* the decimal digits of the natural number n, at least width of them
RECURSIVE NatDigits(_, _)
NatDigits(n, width) ==
  IF n < 10 /\ width <= 1 THEN <<Digits[n + 1]>>
  ELSE NatDigits(n \div 10, width - 1) \o <<Digits[(n % 10) + 1]>>

MagDigits(m) ==
  IF m.hi = 0 THEN NatDigits(m.lo, 1) ELSE NatDigits(m.hi, 1) \o NatDigits(m.lo, 8)

IsSpace(c) == c = " "

RECURSIVE TrimLeft(_)
TrimLeft(s) == IF s # <<>> /\ IsSpace(Head(s)) THEN TrimLeft(Tail(s)) ELSE s

RECURSIVE TrimRight(_)
TrimRight(s) == IF s # <<>> /\ IsSpace(s[Len(s)]) THEN TrimRight(Front(s)) ELSE s

\* Number(s) for a string s over digits, signs, spaces and letters: white space
\* is trimmed, the empty string is 0, an optionally signed run of digits is its
\* value rounded to a double, anything else is NaN.  (Strings with ".", an
\* exponent, a radix prefix or "Infinity" are not in the model's alphabet; digit
\* runs are at most 16 long.)
StringToNumber(s) ==
  LET t == TrimRight(TrimLeft(s))
      signed == t # <<>> /\ Head(t) \in {"+", "-"}
      body == IF signed THEN Tail(t) ELSE t
  IN  IF t = <<>> THEN Num(0)
      ELSE IF body # <<>> /\ \A i \in 1..Len(body) : IsDigit(body[i])
        THEN MkNum(signed /\ Head(t) = "-", RoundToDouble(DigitsMag(body)))
        ELSE NaN

\* Number(v)
ToNumber(v) ==
  IF v.t = "number" THEN v
  ELSE IF v.t = "string" THEN StringToNumber(v.s)
  ELSE NaN

\* String(v), as a template literal `${v}` computes it
JsString(v) ==
  IF v.t = "string" THEN v.s
  ELSE IF v.t = "undefined" THEN <<"u", "n", "d", "e", "f", "i", "n", "e", "d">>
  ELSE IF v.nan THEN <<"N", "a", "N">>
  ELSE (IF v.neg THEN <<"-">> ELSE <<>>) \o MagDigits(Mag(v))

\* !v
Falsy(v) ==
  \/ v.t = "undefined"
  \/ v.t = "string" /\ v.s = <<>>
  \/ v.t = "number" /\ (v.nan \/ (v.hi = 0 /\ v.lo = 0))

(***************************************************************************)
(* Inputs: the decoded commands.  A command is the array the protocol      *)
(* decoder hands to returnReply: the name, then the arguments.  The JS     *)
(* index i of the array is position i + 1 of the tuple.                    *)
(***************************************************************************)
S2p53 == <<"9", "0", "0", "7", "1", "9", "9", "2", "5", "4", "7", "4", "0", "9", "9", "2">>

\* the strings clients store
Values == {<<>>, <<"0">>, <<"1">>, <<"-", "1">>, <<" ", "1", " ">>, <<"a", "b", "c">>, S2p53}

MsetValues == {<<"1">>, <<"a", "b", "c">>}

Seconds == {<<"0">>, <<"1">>, <<"a", "b", "c">>}

\* names no case of either switch matches
OtherNames == {"SET", "Get", "flushall"}

RECURSIVE MsetArgs(_)
MsetArgs(n) ==
  IF n = 0 THEN {<<>>}
  ELSE LET shorter == MsetArgs(n - 1)
           longest == {a \in shorter : Len(a) = n - 1}
       IN  shorter \cup
           IF n % 2 = 1 THEN {Append(a, k) : a \in longest, k \in Keys}
           ELSE {Append(a, v) : a \in longest, v \in MsetValues}

Commands ==
  {<<"set", k, v>> : k \in Keys, v \in Values} \cup {<<"set", k>> : k \in Keys}
    \cup {<<n, k>> : n \in {"get", "del", "exists", "incr", "decr", "ttl"}, k \in Keys}
    \cup {<<"expire", k, s>> : k \in Keys, s \in Seconds}
    \cup {<<"ping">>}
    \cup {<<"mset">> \o a : a \in MsetArgs(MaxMsetArgs)}
    \cup {<<n, k, <<"1">>>> : n \in OtherNames, k \in Keys}

\* reply[i]: a string argument, or undefined past the end of the array
Arg(reply, i) == IF i < Len(reply) THEN Str(reply[i + 1]) ELSE Undefined

(***************************************************************************)
(* The bytes of the replies, one sequence per connection.write call.       *)
(***************************************************************************)
CRLF == <<"\r", "\n">>

OkLower == <<"+", "O", "k">> \o CRLF

OkUpper == <<"+", "O", "K">> \o CRLF

Pong == <<"+", "P", "O", "N", "G">> \o CRLF

NullBulk == <<"$", "-", "1">> \o CRLF

One == <<":", "1">> \o CRLF

Zero == <<":", "0">> \o CRLF

MinusOne == <<":", "-", "1">> \o CRLF

MinusTwo == <<":", "-", "2">> \o CRLF

ErrNotInteger == <<"-", "E", "R", "R", " ", "v", "a", "l", "u", "e", " ", "i", "s", " ", "n", "o", "t", " ", "a", "n", " ", "i", "n", "t", "e", "g", "e", "r">> \o CRLF

ErrUnknown == <<"-", "E", "R", "R", " ", "u", "n", "k", "n", "o", "w", "n", " ", "c", "o", "m", "m", "a", "n", "d">> \o CRLF

\* `+${value}\r\n`
SimpleOf(value) == <<"+">> \o JsString(value) \o CRLF

\* `:${value}\r\n`
IntegerOf(value) == <<":">> \o JsString(value) \o CRLF

(***************************************************************************)
(* State.                                                                  *)
(*   rev      the revision of the dispatcher that runs                     *)
(*   alive    the node process runs; FALSE once an exception has left the  *)
(*            "data" handler uncaught                                      *)
(*   store    the store object: the value of store[key], per key           *)
(*   now      Date.now(), in milliseconds                                  *)
(*   last     the last command a client sent, the connection.write calls   *)
(*            it caused, in order, whether returnReply ran for it, and     *)
(*            (history) whether it gave a value to a key that had none     *)
(*   asked    history: per key, the instants Date.now() + seconds * 1000   *)
(*            that EXPIRE commands on the key, while it held a value, were *)
(*            to record                                                    *)
(*   delOnes  history: per key, how many DELs replied :1 since a SET,      *)
(*            MSET, INCR or DECR last left a value in the key              *)
(*   written  history: per key, whether a SET, MSET, INCR or DECR left a   *)
(*            value in the key and no DEL of the key came after the most   *)
(*            recent of them                                               *)
(*   inbox    per connection, the decoded commands of the client that the  *)
(*            "data" handler of the connection has yet to be called with,  *)
(*            each with its rank among the commands of that client         *)
(*   sent     history: per connection, how many commands the client sent   *)
(*   outbox   per connection, the connection.write calls made on it, in    *)
(*            order, each with the connection and rank of the command      *)
(*            whose handler made the call                                  *)
(***************************************************************************)
Revisions == {"index.js", "part_000"}

\* the connections the server accepted
Conns == {"c1", "c2"}

MsPerSecond == 1000

NoCommand == [reply |-> <<>>, writes |-> <<>>, handled |-> FALSE, fresh |-> FALSE]

Init ==
  /\ rev \in Revisions
  /\ alive = TRUE
  /\ store = [k \in Keys |-> Undefined]
  /\ now = 0
  /\ last = NoCommand
  /\ asked = [k \in Keys |-> {}]
  /\ delOnes = [k \in Keys |-> 0]
  /\ written = [k \in Keys |-> FALSE]
  /\ inbox = [c \in Conns |-> <<>>]
  /\ sent = [c \in Conns |-> 0]
  /\ outbox = [c \in Conns |-> <<>>]

\* the key has a value
Live(st, k) == st[k] # Undefined

\* returnReply ran to its end, or to a return, with these writes
Handled(reply, writes) ==
  [reply |-> reply, writes |-> writes, handled |-> TRUE, fresh |-> FALSE]

\* a counter stays in the explored range: near 0 or just below 2^53
InBounds(v) ==
  \/ v.hi = 0 /\ v.lo <= MaxNum
  \/ v.hi = Two53.hi /\ v.lo + MaxNum >= Two53.lo /\ MagLE(Mag(v), Two53)

(***************************************************************************)
(* The cases of the switch, common to both revisions.                      *)
(***************************************************************************)
\* a SET that starts the store object anew
SetDropsOthers(reply) ==
  /\ alive
  /\ reply[1] = "set"
  /\ LET key == reply[2]
         value == Arg(reply, 2)
     IN  /\ store' = [k \in Keys |-> IF k = key THEN value ELSE Undefined]
         /\ last' = [Handled(reply, <<OkLower>>) EXCEPT
                       !.fresh = ~Live(store, key) /\ value # Undefined]
         /\ delOnes' = [delOnes EXCEPT ![key] = IF value = Undefined THEN @ ELSE 0]
         /\ written' = [written EXCEPT ![key] = @ \/ value # Undefined]
  /\ UNCHANGED <<rev, alive, now, asked>>

Set(reply) ==
  /\ alive
  /\ reply[1] = "set"
  /\ LET key == reply[2]
         value == Arg(reply, 2)
     IN  /\ store' = [store EXCEPT ![key] = value]
         /\ last' = [Handled(reply, <<OkLower>>) EXCEPT
                       !.fresh = ~Live(store, key) /\ value # Undefined]
         /\ delOnes' = [delOnes EXCEPT ![key] = IF value = Undefined THEN @ ELSE 0]
         /\ written' = [written EXCEPT ![key] = @ \/ value # Undefined]
  /\ UNCHANGED <<rev, alive, now, asked>>

Get(reply) ==
  /\ alive
  /\ reply[1] = "get"
  /\ LET key == reply[2]
         value == store[key]
     IN  last' = Handled(reply,
                   (IF Falsy(value) THEN <<NullBulk>> ELSE <<>>) \o <<SimpleOf(value)>>)
  /\ UNCHANGED <<rev, alive, store, now, asked, delOnes, written>>

(***************************************************************************)
(* The cases only part_000 has.                                            *)
(***************************************************************************)
Ping(reply) ==
  /\ alive /\ rev = "part_000"
  /\ reply[1] = "ping"
  /\ last' = Handled(reply, <<Pong>>)
  /\ UNCHANGED <<rev, alive, store, now, asked, delOnes, written>>

\* Del without its delete statement
DelKeepsKey(reply) ==
  /\ alive /\ rev = "part_000"
  /\ reply[1] = "del"
  /\ LET key == reply[2]
     IN  IF store[key] # Undefined
           THEN /\ last' = Handled(reply, <<One>>)
                /\ delOnes' = [delOnes EXCEPT ![key] = @ + 1]
           ELSE /\ last' = Handled(reply, <<Zero>>)
                /\ UNCHANGED delOnes
  /\ written' = [written EXCEPT ![reply[2]] = FALSE]
  /\ UNCHANGED <<rev, alive, store, now, asked>>

Del(reply) ==
  /\ alive /\ rev = "part_000"
  /\ reply[1] = "del"
  /\ LET key == reply[2]
     IN  IF store[key] # Undefined
           THEN /\ store' = [store EXCEPT ![key] = Undefined]
                /\ last' = Handled(reply, <<One>>)
                /\ delOnes' = [delOnes EXCEPT ![key] = @ + 1]
           ELSE /\ last' = Handled(reply, <<Zero>>)
                /\ UNCHANGED <<store, delOnes>>
  /\ written' = [written EXCEPT ![reply[2]] = FALSE]
  /\ UNCHANGED <<rev, alive, now, asked>>

Exists(reply) ==
  /\ alive /\ rev = "part_000"
  /\ reply[1] = "exists"
  /\ LET key == reply[2]
         exists == IF store[key] # Undefined THEN Num(1) ELSE Num(0)
     IN  last' = Handled(reply, <<IntegerOf(exists)>>)
  /\ UNCHANGED <<rev, alive, store, now, asked, delOnes, written>>

\* an INCR that replies the successor and leaves the number in the key
IncrLosesUpdate(reply) ==
  /\ alive /\ rev = "part_000"
  /\ reply[1] = "incr"
  /\ LET key == reply[2]
         num == ToNumber(store[key])
     IN  IF store[key] = Undefined
           THEN /\ store' = [store EXCEPT ![key] = Num(1)]
                /\ last' = Handled(reply, <<IntegerOf(Num(1))>>)
                /\ delOnes' = [delOnes EXCEPT ![key] = 0]
                /\ written' = [written EXCEPT ![key] = TRUE]
           ELSE IF num.nan
             THEN /\ last' = Handled(reply, <<ErrNotInteger>>)
                  /\ UNCHANGED <<store, delOnes, written>>
             ELSE /\ InBounds(AddSmall(num, 1))
                  /\ store' = store
                  /\ last' = Handled(reply, <<IntegerOf(AddSmall(num, 1))>>)
                  /\ delOnes' = [delOnes EXCEPT ![key] = 0]
                  /\ written' = [written EXCEPT ![key] = TRUE]
  /\ UNCHANGED <<rev, alive, now, asked>>

Incr(reply) ==
  /\ alive /\ rev = "part_000"
  /\ reply[1] = "incr"
  /\ LET key == reply[2]
         num == ToNumber(store[key])
     IN  IF store[key] = Undefined
           THEN /\ store' = [store EXCEPT ![key] = Num(1)]
                /\ last' = Handled(reply, <<IntegerOf(Num(1))>>)
                /\ delOnes' = [delOnes EXCEPT ![key] = 0]
                /\ written' = [written EXCEPT ![key] = TRUE]
           ELSE IF num.nan
             THEN /\ last' = Handled(reply, <<ErrNotInteger>>)
                  /\ UNCHANGED <<store, delOnes, written>>
             ELSE /\ InBounds(AddSmall(num, 1))
                  /\ store' = [store EXCEPT ![key] = AddSmall(num, 1)]
                  /\ last' = Handled(reply, <<IntegerOf(AddSmall(num, 1))>>)
                  /\ delOnes' = [delOnes EXCEPT ![key] = 0]
                  /\ written' = [written EXCEPT ![key] = TRUE]
  /\ UNCHANGED <<rev, alive, now, asked>>

\* The identifier expiry is declared nowhere: evaluating it throws a
\* ReferenceError, which no caller catches, so the process ends, and the store
\* object with it.  The throw comes before Date.now() is read and before
\* anything is written.
Gone == [k \in Keys |-> Undefined]

Expire(reply) ==
  /\ alive /\ rev = "part_000"
  /\ reply[1] = "expire"
  /\ LET key == reply[2]
         seconds == ToNumber(Arg(reply, 2))
     IN  IF store[key] = Undefined
           THEN /\ last' = Handled(reply, <<Zero>>)
                /\ UNCHANGED <<alive, store, asked>>
           ELSE /\ alive' = FALSE
                /\ store' = Gone
                /\ last' = Handled(reply, <<>>)
                /\ asked' = [asked EXCEPT ![key] =
                     IF seconds.nan \/ seconds.neg THEN @
                     ELSE @ \cup {now + seconds.lo * MsPerSecond}]
  /\ UNCHANGED <<rev, now, delOnes, written>>

Ttl(reply) ==
  /\ alive /\ rev = "part_000"
  /\ reply[1] = "ttl"
  /\ LET key == reply[2]
     IN  IF store[key] = Undefined
           THEN /\ last' = Handled(reply, <<MinusTwo>>)
                /\ UNCHANGED <<alive, store>>
           ELSE /\ alive' = FALSE
                /\ store' = Gone
                /\ last' = Handled(reply, <<>>)
  /\ UNCHANGED <<rev, now, asked, delOnes, written>>

Decr(reply) ==
  /\ alive /\ rev = "part_000"
  /\ reply[1] = "decr"
  /\ LET key == reply[2]
         zeroed == IF store[key] = Undefined THEN [store EXCEPT ![key] = Num(0)] ELSE store
         num == ToNumber(zeroed[key])
     IN  IF num.nan
           THEN /\ store' = zeroed
                /\ last' = Handled(reply, <<ErrNotInteger>>)
                /\ UNCHANGED <<delOnes, written>>
           ELSE /\ InBounds(AddSmall(num, -1))
                /\ store' = [zeroed EXCEPT ![key] = AddSmall(num, -1)]
                /\ last' = Handled(reply, <<IntegerOf(AddSmall(num, -1))>>)
                /\ delOnes' = [delOnes EXCEPT ![key] = 0]
                /\ written' = [written EXCEPT ![key] = TRUE]
  /\ UNCHANGED <<rev, alive, now, asked>>

\* for (let i = 1; i < reply.length; i += 2) store[reply[i]] = reply[i + 1]
RECURSIVE MsetLoop(_, _, _)
MsetLoop(st, reply, i) ==
  IF i < Len(reply)
    THEN MsetLoop([st EXCEPT ![reply[i + 1]] = Arg(reply, i + 1)], reply, i + 2)
    ELSE st

\* the keys the loop of MSET assigns
MsetKeys(reply) == {reply[j] : j \in {j \in 2..Len(reply) : j % 2 = 0}}

\* the keys the loop leaves with a value
MsetValued(reply) == {k \in MsetKeys(reply) : MsetLoop(store, reply, 1)[k] # Undefined}

Mset(reply) ==
  /\ alive /\ rev = "part_000"
  /\ reply[1] = "mset"
  /\ store' = MsetLoop(store, reply, 1)
  /\ last' = Handled(reply, <<OkUpper>>)
  /\ delOnes' = [k \in Keys |-> IF k \in MsetValued(reply) THEN 0 ELSE delOnes[k]]
  /\ written' = [k \in Keys |-> k \in MsetValued(reply) \/ written[k]]
  /\ UNCHANGED <<rev, alive, now, asked>>

Cases == {"set", "get", "ping", "del", "exists", "incr", "expire", "ttl", "decr", "mset"}

Default(reply) ==
  /\ alive /\ rev = "part_000"
  /\ reply[1] \notin Cases
  /\ last' = Handled(reply, <<ErrUnknown>>)
  /\ UNCHANGED <<rev, alive, store, now, asked, delOnes, written>>

(***************************************************************************)
(* index.js: the switch has the cases set and get and no default, so any   *)
(* other name leaves the switch without a write.                           *)
(***************************************************************************)
NoCase(reply) ==
  /\ alive /\ rev = "index.js"
  /\ reply[1] \notin {"set", "get"}
  /\ last' = Handled(reply, <<>>)
  /\ UNCHANGED <<rev, alive, store, now, asked, delOnes, written>>

(***************************************************************************)
(* The environment.                                                        *)
(***************************************************************************)
\* the process has ended: no handler runs for what a client sends, and
\* nothing is written back
Refused(reply) ==
  /\ ~alive
  /\ last' = [NoCommand EXCEPT !.reply = reply]
  /\ UNCHANGED <<rev, alive, store, now, asked, delOnes, written>>

\* a second passes
Tick ==
  /\ now < MaxTicks * MsPerSecond
  /\ now' = now + MsPerSecond
  /\ UNCHANGED <<rev, alive, store, last, asked, delOnes, written>>

\* a step that goes through no connection queue
Quiet == UNCHANGED <<inbox, sent, outbox>>

\* One client: each command is decoded and handled as soon as it is sent.
Next ==
  \/ \E reply \in Commands : Set(reply) /\ Quiet
  \/ \E reply \in Commands : Get(reply) /\ Quiet
  \/ \E reply \in Commands : Ping(reply) /\ Quiet
  \/ \E reply \in Commands : Del(reply) /\ Quiet
  \/ \E reply \in Commands : Exists(reply) /\ Quiet
  \/ \E reply \in Commands : Incr(reply) /\ Quiet
  \/ \E reply \in Commands : Expire(reply) /\ Quiet
  \/ \E reply \in Commands : Ttl(reply) /\ Quiet
  \/ \E reply \in Commands : Decr(reply) /\ Quiet
  \/ \E reply \in Commands : Mset(reply) /\ Quiet
  \/ \E reply \in Commands : Default(reply) /\ Quiet
  \/ \E reply \in Commands : NoCase(reply) /\ Quiet
  \/ \E reply \in Commands : Refused(reply) /\ Quiet
  \/ Tick /\ Quiet

Spec == Init /\ [][Next]_vars

(***************************************************************************)
(* Several clients.  net.createServer calls its callback once per          *)
(* connection; the callback closes over that connection and installs the   *)
(* "data" handler, whose parser calls returnReply for each decoded         *)
(* command, synchronously, before the handler returns.  Handlers of        *)
(* different connections run one after the other on the one thread, all on *)
(* the one store.  Deliver handles one command; the commands of one chunk  *)
(* are consecutive Delivers of the same connection.                        *)
(***************************************************************************)
\* what the clients send
ConnCommands ==
  {<<"incr", "a">>, <<"get", "a">>, <<"del", "a">>, <<"expire", "a", <<"0">>>>}

\* every handler writes to one and the same connection
SharedSocket(c) == "c2"

\* the connection the handler of connection c writes to: the parameter of
\* the createServer callback it was created in
Socket(c) == c

\* the writes of the command with this rank of connection c
Entries(c, rank, reply, writes) ==
  [i \in 1..Len(writes) |->
     [from |-> c, rank |-> rank, reply |-> reply, bytes |-> writes[i]]]

\* the switch, or nothing once the process has ended
Dispatch(reply) ==
  \/ Set(reply) \/ Get(reply) \/ Ping(reply) \/ Del(reply) \/ Exists(reply)
  \/ Incr(reply) \/ Expire(reply) \/ Ttl(reply) \/ Decr(reply) \/ Mset(reply)
  \/ Default(reply) \/ NoCase(reply) \/ Refused(reply)

\* the client of connection c sends a command
Send(c, reply) ==
  /\ sent[c] < MaxSent
  /\ sent' = [sent EXCEPT ![c] = @ + 1]
  /\ inbox' = [inbox EXCEPT
                 ![c] = Append(@, [rank |-> sent[c] + 1, reply |-> reply])]
  /\ UNCHANGED <<rev, alive, store, now, last, asked, delOnes, written, outbox>>

\* the "data" handler of connection c runs for the next command of c
Deliver(c) ==
  /\ inbox[c] # <<>>
  /\ LET m == Head(inbox[c])
     IN  /\ Dispatch(m.reply)
         /\ outbox' = [outbox EXCEPT
                         ![Socket(c)] = @ \o Entries(c, m.rank, m.reply, last'.writes)]
  /\ inbox' = [inbox EXCEPT ![c] = Tail(@)]
  /\ UNCHANGED sent

ConnNext ==
  \/ \E c \in Conns, reply \in ConnCommands : Send(c, reply)
  \/ \E c \in Conns : Deliver(c)

ConnSpec == Init /\ [][ConnNext]_vars

(***************************************************************************)
(* Vocabulary of the properties.                                           *)
(***************************************************************************)
\* the name of the command of a record of last
Name(l) == IF Len(l.reply) = 0 THEN "" ELSE l.reply[1]

\* returnReply ran for the command called name
Ran(l, name) == l.handled /\ Name(l) = name

\* the bulk string `$<length>\r\n<bytes>\r\n`
BulkOf(s) == <<"$">> \o NatDigits(Len(s), 1) \o CRLF \o s \o CRLF

\* the commands that assign a key
Writers == {"set", "mset", "incr", "decr"}

\* the keys a command names
KeysOf(l) ==
  IF Name(l) = "mset" THEN MsetKeys(l.reply)
  ELSE IF Len(l.reply) >= 2 THEN {l.reply[2]} ELSE {}

\* an instant EXPIRE asked for on the key has come
Due(k) == \E instant \in asked[k] : instant <= now

\* s is the decimal numeral of an integer
IsInteger(s) ==
  LET body == IF s # <<>> /\ Head(s) = "-" THEN Tail(s) ELSE s
  IN  body # <<>> /\ \A i \in 1..Len(body) : IsDigit(body[i])

\* the integer the value holds: a number, or the numeral of one
HoldsInteger(v) == (v.t = "number" /\ ~v.nan) \/ (v.t = "string" /\ IsInteger(v.s))

\* the integer a numeral denotes, exactly
IntegerOfNumeral(s) ==
  IF Head(s) = "-" THEN MkNum(TRUE, DigitsMag(Tail(s))) ELSE MkNum(FALSE, DigitsMag(s))

\* the integer a value with HoldsInteger holds
Held(v) == IF v.t = "number" THEN v ELSE IntegerOfNumeral(v.s)

\* x + d over the integers, d in {1, -1}
Plus(x, d) ==
  LET m == Mag(x)
      zero == m.hi = 0 /\ m.lo = 0
  IN  IF (d = 1 /\ ~x.neg) \/ (d = -1 /\ (x.neg \/ zero))
        THEN MkNum(d = -1, MagInc(m))
        ELSE MkNum(x.neg, MagDec(m))

\* what a command replies for a key without value
AnswerWhenAbsent(name) ==
  IF name = "get" THEN <<NullBulk>>
  ELSE IF name = "ttl" THEN <<MinusTwo>>
  ELSE IF name = "incr" THEN <<IntegerOf(Num(1))>>
  ELSE IF name = "decr" THEN <<IntegerOf(Num(-1))>>
  ELSE <<Zero>>

\* every write made so far, those of c1 before those of c2
IncrWrites == outbox["c1"] \o outbox["c2"]

\* all that was handled so far are INCRs of the key a: nothing else was
\* sent and is now out of an inbox
OnlyIncrs ==
  /\ \A i \in 1..Len(IncrWrites) : IncrWrites[i].reply = <<"incr", "a">>
  /\ Len(IncrWrites) = (sent["c1"] - Len(inbox["c1"])) + (sent["c2"] - Len(inbox["c2"]))

\* names that are no command in any letter case
Unsupported == {"flushall"}

\* Every step but Tick is a command, and leaves the command in last'.  In the
\* action properties below, a step with now' = now is the step of the command
\* last', run from the unprimed state.

(***************************************************************************)
(* C1: SET k v replies the simple string +OK, and a GET k that comes next  *)
(* replies the bulk string of v, for every string v, the empty one too.    *)
(* The code answers SET with +Ok and GET with a simple string.             *)
(***************************************************************************)
C1_SetThenGet ==
  [][now' = now =>
       /\ Ran(last', "set") /\ Len(last'.reply) = 3 => last'.writes = <<OkUpper>>
       /\ Ran(last, "set") /\ Len(last.reply) = 3 /\ Ran(last', "get")
            /\ last'.reply[2] = last.reply[2]
          => last'.writes = <<BulkOf(last.reply[3])>>]_vars

(***************************************************************************)
(* C2: GET k replies the null bulk string exactly when k has no value;     *)
(* when it has one, the empty string or a counter at 0 included, the one   *)
(* reply carries the stored value (in either encoding) and no null reply   *)
(* is written.  The code tests !value, so "" and 0 get a null reply.       *)
(***************************************************************************)
C2_GetNullIffAbsent ==
  [][now' = now /\ Ran(last', "get") =>
       LET k == last'.reply[2]
           w == last'.writes
       IN  /\ (\E i \in 1..Len(w) : w[i] = NullBulk) <=> ~Live(store, k)
           /\ Live(store, k) =>
                w \in {<<BulkOf(JsString(store[k]))>>, <<SimpleOf(store[k])>>}]_vars

(***************************************************************************)
(* C3: every command returnReply runs for causes exactly one reply.  GET   *)
(* of a key without value writes two, EXPIRE and TTL of a key with a value *)
(* write none, and index.js writes none for a name it has no case for.     *)
(***************************************************************************)
C3_ExactlyOneReply == last.handled => Len(last.writes) = 1

(***************************************************************************)
(* C4: no command puts the process into a failed state.  EXPIRE and TTL of *)
(* a key with a value throw a ReferenceError nobody catches.               *)
(***************************************************************************)
C4_NoCommandIsFatal == alive

C6_ExistsIffWritten ==
  [][rev = "part_000" /\ now' = now /\ Ran(last', "exists") =>
       LET k == last'.reply[2]
       IN  last'.writes = (IF written[k] /\ ~Due(k) THEN <<One>> ELSE <<Zero>>)]_vars

(***************************************************************************)
(* C7 (part_000): INCR of a key without value replies 1 and DECR replies   *)
(* -1; INCR or DECR of a key that holds the integer i replies i + 1 or     *)
(* i - 1 and stores it.  The code adds doubles: at i = 2^53 the sum i + 1  *)
(* is i.                                                                   *)
(***************************************************************************)
C7_IncrDecrByOne ==
  [][rev = "part_000" /\ now' = now /\ (Ran(last', "incr") \/ Ran(last', "decr")) =>
       LET k == last'.reply[2]
           d == IF Name(last') = "incr" THEN 1 ELSE -1
           result == IF Live(store, k) THEN Plus(Held(store[k]), d) ELSE Num(d)
       IN  ~Live(store, k) \/ HoldsInteger(store[k]) =>
             /\ last'.writes = <<IntegerOf(result)>>
             /\ ToNumber(store'[k]) = result]_vars

(***************************************************************************)
(* C8 (part_000): INCR or DECR of a key whose value is not a base-10       *)
(* integer replies the not-an-integer error and changes nothing in the     *)
(* store.  Number() converts "" and " 1 ", so the code counts from them.   *)
(***************************************************************************)
C8_NotAnIntegerRejected ==
  [][rev = "part_000" /\ now' = now /\ (Ran(last', "incr") \/ Ran(last', "decr")) =>
       LET k == last'.reply[2]
       IN  Live(store, k) /\ ~HoldsInteger(store[k]) =>
             /\ last'.writes = <<ErrNotInteger>>
             /\ store' = store]_vars

(***************************************************************************)
(* C9 (part_000): once an instant asked for by an EXPIRE of a key has      *)
(* come, every command sent for the key is answered as for a key without   *)
(* value: GET null, EXISTS 0, TTL -2, DEL 0, EXPIRE 0, INCR 1, DECR -1.    *)
(* The EXPIRE that asks for the instant ends the process, and nothing is   *)
(* answered after it.                                                      *)
(***************************************************************************)
C9_ExpiredIsAbsent ==
  [][rev = "part_000" /\ now' = now
       /\ Name(last') \in {"get", "exists", "ttl", "del", "expire", "incr", "decr"} =>
       (Due(last'.reply[2]) => last'.writes = AnswerWhenAbsent(Name(last')))]_vars

(***************************************************************************)
(* C10 (part_000): TTL k replies -2 when k has no value and -1 when k has  *)
(* a value and no expiry was set for it.  The second case reads the        *)
(* undeclared expiry: the code replies nothing.                            *)
(***************************************************************************)
C10_TtlReplies ==
  [][rev = "part_000" /\ now' = now /\ Ran(last', "ttl") =>
       LET k == last'.reply[2]
       IN  /\ ~Live(store, k) => last'.writes = <<MinusTwo>>
           /\ Live(store, k) /\ asked[k] = {} => last'.writes = <<MinusOne>>]_vars

(***************************************************************************)
(* C11 (part_000): EXPIRE k s replies 0 and changes nothing when k has no  *)
(* value; when k has one it replies 1, leaves every value as it is, and    *)
(* the process goes on with the instant now + s recorded.  The code throws *)
(* at the undeclared expiry: no reply, and the process ends.               *)
(***************************************************************************)
C11_ExpireReplies ==
  [][rev = "part_000" /\ now' = now /\ Ran(last', "expire") =>
       LET k == last'.reply[2]
       IN  /\ last'.writes = (IF Live(store, k) THEN <<One>> ELSE <<Zero>>)
           /\ store' = store
           /\ alive']_vars

(***************************************************************************)
(* C12 (part_000): an MSET with an odd number of arguments is answered     *)
(* with an error reply and writes nothing.  The code replies +OK, assigns  *)
(* every pair, and assigns undefined to the key without value.             *)
(***************************************************************************)
C12_OddMsetRejected ==
  [][rev = "part_000" /\ now' = now /\ Ran(last', "mset")
       /\ Len(last'.reply) % 2 = 0 =>
       /\ Len(last'.writes) = 1 /\ Head(last'.writes[1]) = "-"
       /\ store' = store]_vars

(***************************************************************************)
(* C13: in every revision, a command whose name is not a supported command *)
(* is answered with the error "unknown command" and changes neither the    *)
(* store nor an expiry.  index.js has no default branch: it replies        *)
(* nothing.                                                                *)
(***************************************************************************)
C13_UnknownCommand ==
  [][now' = now /\ last'.handled /\ Name(last') \in Unsupported =>
       /\ last'.writes = <<ErrUnknown>>
       /\ store' = store /\ asked' = asked /\ alive']_vars

(***************************************************************************)
(* C14: a command name is lowercased before dispatch, so SET does what     *)
(* set does: SET k v stores v in k and is answered as set k v is.  The     *)
(* code compares the name as it came: SET reaches default (part_000) or    *)
(* no case at all (index.js).                                              *)
(***************************************************************************)
C14_NameCaseInsensitive ==
  [][now' = now /\ last'.handled /\ Name(last') = "SET"
       /\ Len(last'.reply) = 3 =>
       /\ store' = [store EXCEPT ![last'.reply[2]] = Str(last'.reply[3])]
       /\ last'.writes = <<OkLower>>]_vars

(***************************************************************************)
(* C15 (several clients): every connection.write of a handler goes to the  *)
(* connection whose client sent the command, and on each connection the    *)
(* writes come in the order in which its commands arrived: ranks never     *)
(* decrease along the writes of a connection, and no rank is ahead of what *)
(* was taken out of the inbox.                                             *)
(***************************************************************************)
C15_RepliesToSenderInOrder ==
  \A c \in Conns :
    \A i \in 1..Len(outbox[c]) :
      /\ outbox[c][i].from = c
      /\ outbox[c][i].rank <= sent[c] - Len(inbox[c])
      /\ i > 1 => outbox[c][i - 1].rank <= outbox[c][i].rank

\* both connections were written to, one of them for two commands, while
\* the handlers of the two connections took turns
C15_Witness ==
  /\ \A c \in Conns : outbox[c] # <<>>
  /\ \E c \in Conns : \E i \in 1..Len(outbox[c]) : outbox[c][i].rank = 2
  /\ \E c \in Conns : sent[c] = 2 /\ inbox[c] # <<>> /\ outbox[c] # <<>>

(***************************************************************************)
(* C16 (several clients, part_000): when all that the clients had handled  *)
(* so far are n INCRs of the key a, absent at the start, the replies are   *)
(* the integers 1..n, each once, and the key holds n.                      *)
(***************************************************************************)
C16_NoLostIncrement ==
  LET n == Len(IncrWrites)
  IN  rev = "part_000" /\ alive /\ OnlyIncrs /\ n > 0 =>
        /\ store["a"] = Num(n)
        /\ {IncrWrites[i].bytes : i \in 1..n} = {IntegerOf(Num(i)) : i \in 1..n}

\* two INCRs were handled, one of each connection
C16_Witness ==
  /\ rev = "part_000" /\ alive /\ OnlyIncrs
  /\ \A c \in Conns : outbox[c] # <<>>
  /\ store["a"] = Num(2)

(***************************************************************************)
(* C17 (part_000): an EXPIRE whose seconds argument is no number is        *)
(* answered with an error reply, leaves every value as it is and the       *)
(* process goes on.  The code never looks at Number(reply[2]) before it    *)
(* replies :0 (no value in the key) or throws at the undeclared expiry.    *)
(***************************************************************************)
C17_ExpireSecondsRejected ==
  [][rev = "part_000" /\ now' = now /\ Ran(last', "expire")
       /\ ToNumber(Arg(last'.reply, 2)).nan =>
       /\ Len(last'.writes) = 1 /\ Head(last'.writes[1]) = "-"
       /\ store' = store
       /\ alive']_vars

(***************************************************************************)
(* C18 (part_000): INCR and DECR of a key that holds a string which is not *)
(* the decimal numeral of an integer (the empty string, a numeral between  *)
(* spaces, letters) are answered with the error, and the string stays.     *)
(* Number() reads "" as 0 and trims white space, so the code counts on.    *)
(***************************************************************************)
C18_OnlyNumeralsCounted ==
  [][rev = "part_000" /\ now' = now
       /\ (Ran(last', "incr") \/ Ran(last', "decr"))
       /\ store[last'.reply[2]].t = "string"
       /\ ~IsInteger(store[last'.reply[2]].s) =>
       /\ last'.writes = <<ErrNotInteger>>
       /\ store'[last'.reply[2]] = store[last'.reply[2]]]_vars

(***************************************************************************)
(* C19 (frame of SET, both revisions): SET k v leaves v in k and changes   *)
(* nothing else: the values of the other keys stay, nothing that an EXPIRE *)
(* asked for is added or dropped, for k or another key, and the process    *)
(* goes on.                                                                *)
(***************************************************************************)
C19_SetFrame ==
  [][now' = now /\ Ran(last', "set") =>
       LET key == last'.reply[2]
       IN  /\ store'[key] = Arg(last'.reply, 2)
           /\ \A k \in Keys \ {key} : store'[k] = store[k]
           /\ asked' = asked
           /\ alive']_vars

\* a SET of a key left a string in it while the other key held a value
C19_Witness ==
  /\ Ran(last, "set") /\ Len(last.reply) = 3
  /\ store[last.reply[2]] = Str(last.reply[3])
  /\ \E k \in Keys \ {last.reply[2]} : Live(store, k)

(***************************************************************************)
(* C20 (part_000): a key that is in the key space without an expiry        *)
(* recorded for it answers TTL with -1; so does a key that SET has just    *)
(* brought back into the key space, whatever was asked of the key before   *)
(* it went.  The code throws at the undeclared expiry in TTL: no reply.    *)
(***************************************************************************)
C20_FreshKeyHasNoExpiry ==
  [][rev = "part_000" /\ now' = now
       /\ Ran(last, "set") /\ last.fresh
       /\ Name(last') = "ttl" /\ last'.reply[2] = last.reply[2] =>
       last'.writes = <<MinusOne>>]_vars

====
